---- MODULE Spec2Model ----
(***************************************************************************)
(* Candidate generation (src/src/models/candidate_generation.py) and the   *)
(* serving orchestrator (src/src/models/serving.py) of the recommendation  *)
(* pipeline, with the feature store (src/src/data/feature_store.py) and    *)
(* the ranking model (src/src/models/ranker.py) it calls.                  *)
(*                                                                         *)
(* Article IDs are modelled as the integers 1..NumItems; their order is    *)
(* the string order of equal-width article_id strings.  Floating-point     *)
(* scores are fixed-point integers: raw scores in units of 1/ScoreUnit,    *)
(* normalized scores in units of 1/NormUnit, weights in hundredths.        *)
(***************************************************************************)
EXTENDS Integers, Sequences, FiniteSets, TLC

\* ------------------------------------------------------------------ bounds
NumItems == 3
MaxK == 3

Items == 1..NumItems
\* popularity_rank values the view holds (1-based; equal ranks occur).
Ranks == {1, 2}

\* Python None / SQL NULL / polars null.
NULL == -1

\* ---------------------------------------------------------------- helpers
Min(a, b) == IF a < b THEN a ELSE b
Max(a, b) == IF a > b THEN a ELSE b

Range(s) == {s[i] : i \in 1..Len(s)}

\* Python s[:k] for a list s (k may be negative or exceed len(s)).
Prefix(s, k) ==
    IF k >= 0 THEN SubSeq(s, 1, Min(k, Len(s)))
    ELSE SubSeq(s, 1, Max(Len(s) + k, 0))

\* --------------------------------------------------------------- constants
\* 1.0 as a raw score (score = 1.0 / (1.0 + r)).
ScoreUnit == 100
\* 1.0 as a normalized score.
NormUnit == 1000
\* merge_candidates defaults w_pop = 0.30, w_cf = 0.70, in hundredths.
WPop == 30
WCf == 70

\* round(100 * log1p(c / 100)) for c = 0..200: math.log1p on raw scores.
Log1pTable ==
    << 0, 1, 2, 3, 4, 5, 6, 7, 8, 9, 10, 10, 11, 12, 13, 14, 15, 16, 17, 17,
       18, 19, 20, 21, 22, 22, 23, 24, 25, 25, 26, 27, 28, 29, 29, 30, 31, 31,
       32, 33, 34, 34, 35, 36, 36, 37, 38, 39, 39, 40, 41, 41, 42, 43, 43, 44,
       44, 45, 46, 46, 47, 48, 48, 49, 49, 50, 51, 51, 52, 52, 53, 54, 54, 55,
       55, 56, 57, 57, 58, 58, 59, 59, 60, 60, 61, 62, 62, 63, 63, 64, 64, 65,
       65, 66, 66, 67, 67, 68, 68, 69, 69, 70, 70, 71, 71, 72, 72, 73, 73, 74,
       74, 75, 75, 76, 76, 77, 77, 77, 78, 78, 79, 79, 80, 80, 81, 81, 82, 82,
       82, 83, 83, 84, 84, 85, 85, 85, 86, 86, 87, 87, 88, 88, 88, 89, 89, 90,
       90, 90, 91, 91, 92, 92, 92, 93, 93, 94, 94, 94, 95, 95, 96, 96, 96, 97,
       97, 97, 98, 98, 99, 99, 99, 100, 100, 100, 101, 101, 102, 102, 102, 103,
       103, 103, 104, 104, 104, 105, 105, 105, 106, 106, 106, 107, 107, 108,
       108, 108, 109, 109, 109, 110, 110 >>

\* math.log1p(max(v, 0.0)) of a raw score v.
Log1p(v) == Log1pTable[Max(v, 0) + 1]

\* ------------------------------------------------------------- popularity
\* The rows of v_item_features: a function article_id -> popularity_rank
\* (a rank or NULL) on the article IDs the view holds.
ItemViews == UNION {[S -> Ranks \cup {NULL}] : S \in SUBSET Items}

\* ORDER BY popularity_rank ASC, article_id ASC with the NULL ranks first.
PopBeforeNullsFirst(view, a, b) ==
    IF view[a] = view[b] THEN a < b ELSE view[a] < view[b]

\* ORDER BY popularity_rank ASC NULLS LAST, article_id ASC
PopBefore(view, a, b) ==
    LET ra == view[a]
        rb == view[b]
    IN  IF ra = rb THEN a < b
        ELSE IF ra = NULL THEN FALSE
        ELSE IF rb = NULL THEN TRUE
        ELSE ra < rb

RECURSIVE PopOrder(_, _)
PopOrder(view, S) ==
    IF S = {} THEN <<>>
    ELSE LET first == CHOOSE a \in S : \A b \in S \ {a} : PopBefore(view, a, b)
         IN  <<first>> \o PopOrder(view, S \ {first})

\* generate_popularity_candidates: the first top_k article IDs of the view.
generate_popularity_candidates(view, top_k) ==
    Prefix(PopOrder(view, DOMAIN view), Max(top_k, 0))

\* score = 1 / (1 + max(rank, 0)); an unknown rank counts as rank 1e12.
PopScore(rank) ==
    IF rank = NULL THEN 0 ELSE ScoreUnit \div (1 + Max(rank, 0))

\* generate_popularity_scored: ScoredItem rows in view order.
generate_popularity_scored(view, top_k) ==
    LET ids == generate_popularity_candidates(view, top_k)
    IN  [i \in 1..Len(ids) |-> [item_id |-> ids[i], score |-> PopScore(view[ids[i]])]]

\* --------------------------------------------------------- co-occurrence
\* The rows generate_cf_scored_item2item returns for one user: distinct
\* article IDs (GROUP BY cand_item), ORDER BY score_cf DESC, article_id ASC,
\* at most top_k of them (LIMIT).
CfScoreValues == {50, 100}
CfPools == UNION {[S -> CfScoreValues] : S \in SUBSET Items}

CfBefore(pool, a, b) ==
    IF pool[a] = pool[b] THEN a < b ELSE pool[a] > pool[b]

RECURSIVE CfOrder(_, _)
CfOrder(pool, S) ==
    IF S = {} THEN <<>>
    ELSE LET first == CHOOSE a \in S : \A b \in S \ {a} : CfBefore(pool, a, b)
         IN  <<first>> \o CfOrder(pool, S \ {first})

generate_cf_scored_item2item(pool, top_k) ==
    LET ids == Prefix(CfOrder(pool, DOMAIN pool), Max(top_k, 0))
    IN  [i \in 1..Len(ids) |-> [item_id |-> ids[i], score |-> pool[ids[i]]]]

\* ---------------------------------------------- the co-occurrence query
\* time_decay_half_life_days (default 14).
HalfLifeDays == 14
\* popularity_penalty_alpha (default 0.20), in hundredths.
PenaltyAlpha == 20

\* round(1000 * ln(1 + r)) for the ranks r = 1..6.
LnTable == <<693, 1099, 1386, 1609, 1792, 1946>>

\* LN(1.0 + CAST(popularity_rank AS DOUBLE)), in thousandths.
Ln1p(rank) == IF rank <= 0 THEN 0 ELSE LnTable[rank]

\* POW(0.5, DATE_DIFF('day', d, dmax) / half_life) in 1/ScoreUnit, for ages
\* that are whole multiples of the half-life.
DecayWeight(d, dmax, half_life) == ScoreUnit \div (2 ^ ((dmax - d) \div half_life))

\* SUM over the rows S of a join, w giving each row's term.
RECURSIVE SumOf(_, _)
SumOf(w, S) ==
    IF S = {} THEN 0
    ELSE LET x == CHOOSE y \in S : TRUE
         IN  w[x] + SumOf(w, S \ {x})

\* v_cf_max_date: the latest t_dat of v_cf_transactions.
CfMaxDate(tx) == CHOOSE d \in {r.t_dat : r \in tx} : \A r \in tx : r.t_dat <= d

\* user_recent: the user's rows numbered by t_dat DESC, article_id ASC,
\* those numbered up to recent_items kept.
user_recent(tx, user_id, recent_items) ==
    LET mine == {r \in tx : r.customer_id = user_id}
        rnk(r) == 1 + Cardinality({q \in mine :
                                     \/ q.t_dat > r.t_dat
                                     \/ q.t_dat = r.t_dat /\ q.article_id < r.article_id})
    IN  {r \in mine : rnk(r) <= recent_items}

\* user_purchased: SELECT DISTINCT article_id of the user's rows.
user_purchased(tx, user_id) == {r.article_id : r \in {q \in tx : q.customer_id = user_id}}

\* cooc_raw: the join seed_weighted x t1 x t2 grouped by (seed_item,
\* cand_item); a function from the groups that have a row to raw_score.
cooc_raw(tx, user_id, recent_items, half_life) ==
    LET dmax == CfMaxDate(tx)
        joined == {j \in user_recent(tx, user_id, recent_items) \X tx \X tx :
                     /\ j[2].article_id = j[1].article_id
                     /\ j[3].customer_id = j[2].customer_id
                     /\ j[3].article_id # j[1].article_id}
        term == [j \in joined |->
                    (DecayWeight(j[1].t_dat, dmax, half_life)
                     * DecayWeight(j[3].t_dat, dmax, half_life)) \div ScoreUnit]
        groups == {<<j[1].article_id, j[3].article_id>> : j \in joined}
    IN  [g \in groups |->
            SumOf(term, {j \in joined : j[1].article_id = g[1] /\ j[3].article_id = g[2]})]

\* cooc_pruned: per seed the cooc_top_per_seed groups first by raw_score
\* DESC, cand_item ASC.
cooc_pruned(raw, cooc_top_per_seed) ==
    LET rr(g) == 1 + Cardinality({h \in DOMAIN raw :
                                    /\ h[1] = g[1]
                                    /\ \/ raw[h] > raw[g]
                                       \/ raw[h] = raw[g] /\ h[2] < g[2]})
    IN  {g \in DOMAIN raw : rr(g) <= cooc_top_per_seed}

\* cand_agg: SUM(raw_score) per cand_item over the pruned groups.
cand_agg(tx, user_id, recent_items, cooc_top_per_seed, half_life) ==
    LET raw  == cooc_raw(tx, user_id, recent_items, half_life)
        kept == cooc_pruned(raw, cooc_top_per_seed)
    IN  [c \in {g[2] : g \in kept} |-> SumOf(raw, {g \in kept : g[2] = c})]

\* cand_filtered's CASE: score_sum / (1.0 + alpha * LN(1.0 + rank)), or
\* score_sum for an article without a rank.
score_cf(score_sum, rank, alpha) ==
    IF rank = NULL THEN score_sum
    ELSE (score_sum * 1000) \div (1000 + (alpha * Ln1p(rank)) \div 100)

\* cand_join's LEFT JOIN: the view's rank of an article, NULL without a row.
JoinedRank(view, a) == IF a \in DOMAIN view THEN view[a] ELSE NULL

\* cand_filtered without the NOT IN (user_purchased) condition.
cand_filtered_unfiltered(tx, view, user_id, a) ==
    LET agg == cand_agg(tx, user_id, a.recent_items, a.cooc_top_per_seed, a.half_life)
    IN  [c \in DOMAIN agg |-> score_cf(agg[c], JoinedRank(view, c), a.alpha)]

\* cand_filtered: article_id -> score_cf, less the user's own purchases
\* when exclude_already_purchased is set.
cand_filtered(tx, view, user_id, a) ==
    LET agg  == cand_agg(tx, user_id, a.recent_items, a.cooc_top_per_seed,
                         a.half_life)
        keep == IF a.exclude_already_purchased
                THEN DOMAIN agg \ user_purchased(tx, user_id)
                ELSE DOMAIN agg
    IN  [c \in keep |-> score_cf(agg[c], JoinedRank(view, c), a.alpha)]

\* The whole query: cand_filtered ORDER BY score_cf DESC, article_id ASC
\* LIMIT top_k, for a table with rows and for an empty one.
cf_query(tx, view, user_id, a) ==
    IF tx = {} THEN <<>>
    ELSE generate_cf_scored_item2item(cand_filtered(tx, view, user_id, a), a.top_k)

\* ------------------------------------------------------------------ merge
SeqMin(s) == CHOOSE v \in Range(s) : \A w \in Range(s) : v <= w
SeqMax(s) == CHOOSE v \in Range(s) : \A w \in Range(s) : v >= w

\* Scaling by the largest value alone, without subtracting the smallest.
normalize_scores_max_scaled(items) ==
    IF Len(items) = 0 THEN <<>>
    ELSE
        LET ids  == {items[i].item_id : i \in 1..Len(items)}
            vals == [i \in 1..Len(items) |-> Log1p(items[i].score)]
            vmin == SeqMin(vals)
            vmax == SeqMax(vals)
        IN  IF vmax <= vmin
            THEN [k \in ids |-> NormUnit]
            ELSE [k \in ids |->
                     LET i == CHOOSE j \in 1..Len(items) : items[j].item_id = k
                     IN  (Log1p(items[i].score) * NormUnit) \div vmax]

\* _normalize_scores: item_id -> log1p, min-max scaled to [0, 1]; all 1.0
\* when every value is the same; the empty map for an empty list.
normalize_scores(items) ==
    IF Len(items) = 0 THEN <<>>
    ELSE
        LET ids  == {items[i].item_id : i \in 1..Len(items)}
            raw  == [k \in ids |->
                        LET i == CHOOSE j \in 1..Len(items) :
                                    /\ items[j].item_id = k
                                    /\ \A l \in 1..Len(items) :
                                          items[l].item_id = k => l <= j
                        IN  items[i].score]
            vals == [i \in 1..Len(items) |-> Log1p(raw[items[i].item_id])]
            vmin == SeqMin(vals)
            vmax == SeqMax(vals)
        IN  IF vmax <= vmin
            THEN [k \in ids |-> NormUnit]
            ELSE [k \in ids |-> ((Log1p(raw[k]) - vmin) * NormUnit) \div (vmax - vmin)]

\* dict.get(item_id, 0.0)
GetOr0(map, k) == IF k \in DOMAIN map THEN map[k] ELSE 0

\* The expansion loop stopping one item short of total_k.
RECURSIVE ExpandIntoStopsEarly(_, _, _, _, _)
ExpandIntoStopsEarly(pop_norm, all_ids, expanded, exp_norm, total_k) ==
    IF Len(expanded) = 0 \/ Cardinality(all_ids) >= total_k - 1 THEN pop_norm
    ELSE LET k == Head(expanded).item_id
         IN  IF k \in all_ids
             THEN ExpandIntoStopsEarly(pop_norm, all_ids, Tail(expanded), exp_norm,
                                       total_k)
             ELSE ExpandIntoStopsEarly([x \in DOMAIN pop_norm \cup {k} |->
                                           IF x = k THEN exp_norm[k] ELSE pop_norm[x]],
                                       all_ids \cup {k}, Tail(expanded), exp_norm,
                                       total_k)

\* The loop over exp_norm.items() (insertion order = row order) that adds
\* unseen IDs to pop_norm until the union holds total_k IDs.
RECURSIVE ExpandInto(_, _, _, _, _)
ExpandInto(pop_norm, all_ids, expanded, exp_norm, total_k) ==
    IF Len(expanded) = 0 \/ Cardinality(all_ids) >= total_k THEN pop_norm
    ELSE LET k == Head(expanded).item_id
         IN  IF k \in all_ids
             THEN ExpandInto(pop_norm, all_ids, Tail(expanded), exp_norm, total_k)
             ELSE ExpandInto([x \in DOMAIN pop_norm \cup {k} |->
                                  IF x = k THEN exp_norm[k] ELSE pop_norm[x]],
                             all_ids \cup {k}, Tail(expanded), exp_norm, total_k)

\* key_fn and the tuple comparison of sorted(..., reverse=True): a comes
\* before b when key(a) > key(b), key = (final, cs, ps, item_id).
KeyGreater(pop_norm, cf_norm, a, b) ==
    LET psa == GetOr0(pop_norm, a)
        csa == GetOr0(cf_norm, a)
        psb == GetOr0(pop_norm, b)
        csb == GetOr0(cf_norm, b)
        fa  == WPop * psa + WCf * csa
        fb  == WPop * psb + WCf * csb
    IN  IF fa # fb THEN fa > fb
        ELSE IF csa # csb THEN csa > csb
        ELSE IF psa # psb THEN psa > psb
        ELSE a > b

RECURSIVE Ranked(_, _, _)
Ranked(pop_norm, cf_norm, S) ==
    IF S = {} THEN <<>>
    ELSE LET first == CHOOSE a \in S :
                         \A b \in S \ {a} : KeyGreater(pop_norm, cf_norm, a, b)
         IN  <<first>> \o Ranked(pop_norm, cf_norm, S \ {first})

\* cf_norm of merge_candidates: the normalized co-occurrence scores.
merge_cf_norm(pool, cf_top) ==
    normalize_scores(generate_cf_scored_item2item(pool, cf_top))

\* pop_norm of merge_candidates when it ranks: the normalized popTop scores
\* and, when the union is short of total_k, the expansion's entries.
merge_pop_norm(view, pool, total_k, pop_top, cf_top, fallback_pop_expand) ==
    LET pop_norm == normalize_scores(generate_popularity_scored(view, pop_top))
        all_ids  == DOMAIN pop_norm \cup DOMAIN merge_cf_norm(pool, cf_top)
        expanded == generate_popularity_scored(view, fallback_pop_expand)
    IN  IF Cardinality(all_ids) < total_k
        THEN ExpandInto(pop_norm, all_ids, expanded, normalize_scores(expanded),
                        total_k)
        ELSE pop_norm

\* The two sources' ID lists joined end to end instead of the set union.
merge_candidates_joined(view, pool, total_k, pop_top, cf_top, fallback_pop_expand) ==
    IF total_k <= 0 THEN <<>>
    ELSE
        LET pop_scored == generate_popularity_scored(view, pop_top)
            cf_scored  == generate_cf_scored_item2item(pool, cf_top)
        IN  Prefix([i \in 1..Len(pop_scored) |-> pop_scored[i].item_id]
                   \o [i \in 1..Len(cf_scored) |-> cf_scored[i].item_id], total_k)

\* merge_candidates(user_id, total_k, pop_top, cf_top, fallback_pop_expand)
\* over the view rows and the user's co-occurrence pool.
merge_candidates(view, pool, total_k, pop_top, cf_top, fallback_pop_expand) ==
    IF total_k <= 0 THEN <<>>
    ELSE
        LET pop_norm2 == merge_pop_norm(view, pool, total_k, pop_top, cf_top,
                                        fallback_pop_expand)
            cf_norm   == merge_cf_norm(pool, cf_top)
            all_ids2  == DOMAIN pop_norm2 \cup DOMAIN cf_norm
        IN  Prefix(Ranked(pop_norm2, cf_norm, all_ids2), total_k)

\* ---------------------------------------------------------------- serving
\* RecommendationService.__init__ defaults and merge_candidates defaults.
TopKDefault == 10
FallbackHour == 12
PopTopDefault == 200
CfTopDefault == 300
FallbackPopExpandDefault == 1000
\* candidate_k (default 300), scaled to the model's catalogue.
CandidateK == MaxK

\* top_k arguments a caller passes.
TopKArgs == (-1)..MaxK
\* avg_purchase_hour values (ROUND(avg, 2), in hundredths of an hour) or NULL.
AvgHours == {NULL, 850, 2960}
\* Values the ranking model returns for a feature row.
ScoreValues == {1, 9}
\* Required item feature columns.
NeededItemCols == {"popularity_rank", "sales_count", "peak_hour"}

VARIABLES
    con,          \* CandidateGenerator.con is not None
    cache_ready,  \* CandidateGenerator._cache_ready
    fs_con,       \* FeatureStore.con is not None
    ranker,       \* RecommendationService.ranker is not None
    pc,           \* position of the recommend call
    arg_top_k,    \* the top_k argument of the call
    top_k,        \* recommend's top_k after line 80
    cand_status,  \* outcome of the merge_candidates call
    candidates,   \* merge_candidates' result
    uf,           \* get_user_features' result
    it,           \* get_item_features' result
    it2,          \* it2["article_id"].to_list() after the join and the filter
    predict,      \* state of the ranker.predict call
    scores,       \* the array predict returned
    response,     \* what recommend gave its caller
    mview,        \* merge, called directly: the view's rows
    mpool,        \* merge, called directly: the user's co-occurrence pool
    margs,        \* merge, called directly: its arguments
    merged,       \* merge, called directly: its result
    mpc,          \* merge, called directly: position
    nitems,       \* _normalize_scores, called directly: its argument
    norm,         \* _normalize_scores, called directly: its result
    npc,          \* _normalize_scores, called directly: position
    ctx,          \* CF query, called directly: the rows of v_cf_transactions
    cview,        \* CF query, called directly: the rows of v_item_features
    cargs,        \* CF query, called directly: its arguments
    cf_rows,      \* CF query, called directly: the rows it returned
    cpc,          \* CF query, called directly: position
    tpc,          \* concurrent calls: each thread's position
    cur,          \* concurrent calls: which connection self.con refers to
    con_opened,   \* concurrent calls: the connections duckdb.connect returned
    views,        \* concurrent calls: per connection, the state of its views
    pcon,         \* concurrent calls: _prepare_cache's local con, per thread
    qcon,         \* concurrent calls: the connection connect() returned, per thread
    tres,         \* concurrent calls: the outcome of each thread's query
    fs_opened,    \* concurrent calls: the connections FeatureStore.connect opened
    n_predict,    \* the number of ranker.predict calls of this recommend call
    dup_rows,     \* whether the item-feature file may hold two rows per article
    gen,          \* generator lifecycle: what its calls and closes did so far
    pop           \* popularity source, called directly: arguments and results

vars == <<con, cache_ready, fs_con, ranker, pc, arg_top_k, top_k, cand_status,
          candidates, uf, it, it2, predict, scores, response,
          mview, mpool, margs, merged, mpc, nitems, norm, npc,
          ctx, cview, cargs, cf_rows, cpc,
          tpc, cur, con_opened, views, pcon, qcon, tres, fs_opened,
          n_predict, dup_rows, gen, pop>>

genVars == <<con, cache_ready>>
argVars == <<arg_top_k, top_k>>
callVars == <<pc, argVars, cand_status, candidates, uf, it, it2, predict, scores,
              response, n_predict>>
mergeVars == <<mview, mpool, margs, merged, mpc>>
normVars == <<nitems, norm, npc>>
cfVars == <<ctx, cview, cargs, cf_rows, cpc>>
concVars == <<tpc, cur, con_opened, views, pcon, qcon, tres, fs_opened>>
moreVars == <<dup_rows, gen, pop>>
auxVars == <<normVars, cfVars, concVars, moreVars>>

NoUf == [status |-> "none", avg_purchase_hour |-> NULL, has_null |-> FALSE]
NoIt ==
    [status |-> "none", missing_cols |-> {}, complete |-> {}, dups |-> {}, height |-> 0]
NoResponse ==
    [kind |-> "none", recommendations |-> <<>>, has_scores |-> FALSE,
     scores |-> <<>>, optimal_send_time |-> NULL, fallback |-> FALSE]
Raised ==
    [kind |-> "raise", recommendations |-> <<>>, has_scores |-> FALSE,
     scores |-> <<>>, optimal_send_time |-> NULL, fallback |-> FALSE]

\* int(round(float(x))) for x in hundredths: Python rounds halves to even.
RoundHalfEven(x) ==
    LET q == x \div 100
        r == x % 100
    IN  IF r < 50 THEN q
        ELSE IF r > 50 THEN q + 1
        ELSE IF q % 2 = 0 THEN q ELSE q + 1

\* _safe_int_hour
safe_int_hour(x) ==
    IF x = NULL THEN FallbackHour
    ELSE Max(0, Min(23, RoundHalfEven(x)))

\* _fallback returning the whole list (the [:top_k] slice forgotten).
fallback_untruncated(cands, user_avg_hour, k) ==
    [kind |-> "result", recommendations |-> cands, has_scores |-> FALSE,
     scores |-> <<>>, optimal_send_time |-> safe_int_hour(user_avg_hour),
     fallback |-> TRUE]

\* _fallback with the fallback flag left false.
fallback_unflagged(cands, user_avg_hour, k) ==
    [kind |-> "result", recommendations |-> Prefix(cands, k), has_scores |-> FALSE,
     scores |-> <<>>, optimal_send_time |-> safe_int_hour(user_avg_hour),
     fallback |-> FALSE]

\* _fallback
fallback(cands, user_avg_hour, k) ==
    [kind |-> "result", recommendations |-> Prefix(cands, k), has_scores |-> FALSE,
     scores |-> <<>>, optimal_send_time |-> safe_int_hour(user_avg_hour),
     fallback |-> TRUE]

\* The empty-candidates branch going through _fallback (fallback hour set).
NoCandidatesViaFallback ==
    [kind |-> "result", recommendations |-> <<>>, has_scores |-> FALSE,
     scores |-> <<>>, optimal_send_time |-> FallbackHour, fallback |-> TRUE]

\* The response of the empty-candidates branch.
NoCandidatesResponse ==
    [kind |-> "result", recommendations |-> <<>>, has_scores |-> FALSE,
     scores |-> <<>>, optimal_send_time |-> NULL, fallback |-> TRUE]

\* CandidateGenerator.connect: opens the connection and prepares the views.
Connected == con' = TRUE /\ cache_ready' = TRUE

\* recommend, line 80: a falsy top_k (0) becomes top_k_default.
Recommend(k) ==
    /\ pc \in {"idle", "done"}
    /\ pc' = "candidates"
    /\ arg_top_k' = k
    /\ top_k' = IF k # 0 THEN k ELSE TopKDefault
    /\ cand_status' = "none"
    /\ candidates' = <<>>
    /\ uf' = NoUf
    /\ it' = NoIt
    /\ it2' = <<>>
    /\ predict' = "none"
    /\ n_predict' = 0
    /\ scores' = <<>>
    /\ response' = NoResponse
    /\ UNCHANGED <<genVars, fs_con, ranker, mergeVars, auxVars>>

\* recommend, lines 83-86: merge_candidates raises (a failing query), or
\* returns the candidate list.
CandidatesRaise ==
    /\ pc = "candidates"
    /\ \E opened \in BOOLEAN :
          /\ con' = (con \/ opened)
          /\ cache_ready' = cache_ready
    /\ cand_status' = "raise"
    /\ response' = Raised
    /\ pc' = "done"
    /\ UNCHANGED <<fs_con, ranker, argVars, candidates, uf, it, it2, predict,
                   n_predict, scores, mergeVars, auxVars>>

Candidates ==
    /\ pc = "candidates"
    /\ \E view \in ItemViews, pool \in CfPools :
          candidates' = merge_candidates(view, pool, CandidateK, PopTopDefault,
                                         CfTopDefault, FallbackPopExpandDefault)
    /\ cand_status' = "returned"
    /\ Connected
    /\ IF Len(candidates') = 0
       THEN /\ response' = NoCandidatesResponse
            /\ pc' = "done"
       ELSE /\ response' = response
            /\ pc' = "user_features"
    /\ UNCHANGED <<fs_con, ranker, argVars, uf, it, it2, predict, n_predict, scores,
                   mergeVars, auxVars>>

\* recommend, line 89: get_user_features raises (connect fails, or the
\* parquet file is missing after the connection was opened).
UserFeaturesRaise ==
    /\ pc = "user_features"
    /\ \E opened \in BOOLEAN : fs_con' = (fs_con \/ opened)
    /\ uf' = [NoUf EXCEPT !.status = "raise"]
    /\ response' = Raised
    /\ pc' = "done"
    /\ UNCHANGED <<genVars, ranker, argVars, cand_status, candidates, it, it2,
                   predict, n_predict, scores, mergeVars, auxVars>>

\* The lookup's empty result not checked: the call goes on to the item
\* features without a user row.
UserFeaturesEmptyGoesOn ==
    /\ pc = "user_features"
    /\ fs_con' = TRUE
    /\ \/ uf' = [NoUf EXCEPT !.status = "empty"]
       \/ \E h \in AvgHours, n \in BOOLEAN :
             uf' = [status |-> "found", avg_purchase_hour |-> h, has_null |-> n]
    /\ response' = response
    /\ pc' = "item_features"
    /\ UNCHANGED <<genVars, ranker, argVars, cand_status, candidates, it, it2,
                   predict, n_predict, scores, mergeVars, auxVars>>

\* recommend, lines 89-96: the lookup returns no row, or the user's row.
UserFeatures ==
    /\ pc = "user_features"
    /\ fs_con' = TRUE
    /\ \/ /\ uf' = [NoUf EXCEPT !.status = "empty"]
          /\ response' = fallback(candidates, NULL, top_k)
          /\ pc' = "done"
       \/ /\ \E h \in AvgHours, n \in BOOLEAN :
                uf' = [status |-> "found", avg_purchase_hour |-> h, has_null |-> n]
          /\ response' = response
          /\ pc' = "item_features"
    /\ UNCHANGED <<genVars, ranker, argVars, cand_status, candidates, it, it2,
                   predict, n_predict, scores, mergeVars, auxVars>>

\* recommend, line 99: get_item_features raises (the parquet file is missing,
\* or it has no article_id column for the WHERE clause).
ItemFeaturesRaise ==
    /\ pc = "item_features"
    /\ \E missing \in {{}, {"article_id"}} :
          it' = [NoIt EXCEPT !.status = "raise", !.missing_cols = missing]
    /\ response' = Raised
    /\ pc' = "done"
    /\ UNCHANGED <<genVars, fs_con, ranker, argVars, cand_status, candidates, uf, it2,
                   predict, n_predict, scores, mergeVars, auxVars>>

\* The articles of the lookup that have a second row in the file: none
\* for a file with one row per article_id, else at most one of them.
DupChoices(c) == IF dup_rows THEN {{}} \cup {{x} : x \in c} ELSE {{}}

\* The item-feature lookups for a candidate list: the columns the file
\* lacks, the candidates with a row whose three features are all non-null,
\* those of them with a second such row, and the number of rows returned.
ItemLookups(cands) ==
    LET C == Range(cands)
    IN  UNION {{[status |-> "rows", missing_cols |-> {}, complete |-> c,
                 dups |-> d, height |-> Cardinality(c) + Cardinality(d) + p] :
                    p \in {0, 1}, d \in DupChoices(c)} : c \in SUBSET C}
        \cup
        {[status |-> "rows", missing_cols |-> {m}, complete |-> {}, dups |-> {},
          height |-> h] :
             m \in NeededItemCols, h \in {0, Cardinality(C)}}

\* The left join's rows for a list of candidates: one per feature row, so
\* two for a candidate whose article has two rows.
RECURSIVE JoinRows(_, _)
JoinRows(cands, dups) ==
    IF Len(cands) = 0 THEN <<>>
    ELSE (IF Head(cands) \in dups THEN <<Head(cands), Head(cands)>>
          ELSE <<Head(cands)>>) \o JoinRows(Tail(cands), dups)

\* cand_df.join(it, on="article_id", how="left").sort("candidate_idx"), then
\* the filter on the three features being non-null: the candidates with a
\* complete row, in candidate order.
\* The join without the null filter (rows with a missing feature kept).
JoinKeepNullRows(cands, complete) == cands

\* The joined rows left in the feature file's order (article_id ascending),
\* the sort on candidate_idx missing.
JoinFilterFileOrder(cands, complete) ==
    LET S == Range(cands) \cap complete
    IN  [i \in 1..Cardinality(S) |->
            CHOOSE x \in S : Cardinality({y \in S : y < x}) = i - 1]

RECURSIVE JoinFilter(_, _)
JoinFilter(cands, complete) ==
    IF Len(cands) = 0 THEN <<>>
    ELSE IF Head(cands) \in complete
         THEN <<Head(cands)>> \o JoinFilter(Tail(cands), complete)
         ELSE JoinFilter(Tail(cands), complete)

\* The list handed to _fallback when the ranker is None or predict fails.
ModelFallbackList(cands, filtered) == filtered

\* recommend, lines 99-152: the item lookup, the join, the column check, the
\* filter, the feature matrix, and the check that a ranker is loaded.
ItemFeatures ==
    /\ pc = "item_features"
    /\ \E rows \in ItemLookups(candidates) :
          LET joined == JoinRows(JoinFilter(candidates, rows.complete), rows.dups)
          IN  /\ it' = rows
              /\ IF rows.height = 0
                    \/ rows.missing_cols # {}
                    \/ Len(joined) = 0
                 THEN /\ it2' = <<>>
                      /\ response' = fallback(candidates, uf.avg_purchase_hour, top_k)
                      /\ predict' = predict
                      /\ pc' = "done"
                 ELSE /\ it2' = joined
                      /\ IF uf.avg_purchase_hour = NULL \/ uf.has_null
                         THEN \* float(None) raises TypeError outside the try
                              /\ response' = Raised
                              /\ predict' = predict
                              /\ pc' = "done"
                         ELSE IF ~ranker
                         THEN /\ response' = fallback(ModelFallbackList(candidates, joined),
                                                      uf.avg_purchase_hour, top_k)
                              /\ predict' = predict
                              /\ pc' = "done"
                         ELSE /\ response' = response
                              /\ predict' = "running"
                              /\ pc' = "predict"
    /\ n_predict' = IF predict' = "running" THEN n_predict + 1 ELSE n_predict
    /\ UNCHANGED <<genVars, fs_con, ranker, argVars, cand_status, candidates, uf,
                   scores, mergeVars, auxVars>>

\* The first rows taken instead of the largest scores (the partition
\* skipped), by score descending.
TopIdxFirstRows(sc, k) ==
    LET n   == Len(sc)
        cnt == IF k > 0 THEN k ELSE n + k
    IN  {t \in [1..cnt -> 1..cnt] :
            /\ \A i, j \in 1..cnt : t[i] = t[j] => i = j
            /\ \A i, j \in 1..cnt : i < j => sc[t[i]] >= sc[t[j]]}

\* np.argpartition(scores, -k)[-k:] reordered by np.argsort(...)[::-1]: the
\* indices of the largest scores, by score descending; which of several
\* equal scores is taken, and their order, is whatever the two sorts yield.
\* k > 0 selects k of them; k < 0 partitions at index -k and selects the
\* len(scores) + k above it.
TopIdxChoices(sc, k) ==
    LET n   == Len(sc)
        cnt == IF k > 0 THEN k ELSE n + k
    IN  {t \in [1..cnt -> 1..n] :
            /\ \A i, j \in 1..cnt : t[i] = t[j] => i = j
            /\ \A i, j \in 1..cnt : i < j => sc[t[i]] >= sc[t[j]]
            /\ \A x \in 1..n : (\A i \in 1..cnt : t[i] # x) =>
                                  \A i \in 1..cnt : sc[x] <= sc[t[i]]}

\* recs holding the row positions instead of the article IDs.
RecItemsPositions(top_items, top_idx) == [i \in 1..Len(top_idx) |-> top_idx[i]]

\* recs = [top_items[i] for i in top_idx]
RecItems(top_items, top_idx) == [i \in 1..Len(top_idx) |-> top_items[top_idx[i]]]
\* rec_scores read in prediction order instead of through top_idx.
RecScoresInPredictionOrder(sc, top_idx) == [i \in 1..Len(top_idx) |-> sc[i]]
\* rec_scores = [float(scores[i]) for i in top_idx]
RecScores(sc, top_idx) == [i \in 1..Len(top_idx) |-> sc[top_idx[i]]]

\* recommend, lines 156-181: predict returns one score per feature row.
PredictReturn ==
    /\ pc = "predict" /\ predict = "running"
    /\ \E sc \in [1..Len(it2) -> ScoreValues] :
          LET k == Min(top_k, Len(sc))
          IN  /\ scores' = sc
              /\ IF k < 0 /\ -k >= Len(sc)
                 THEN \* argpartition: kth out of bounds, caught at line 168
                      response' = fallback(ModelFallbackList(candidates, it2),
                                           uf.avg_purchase_hour, top_k)
                 ELSE \E top_idx \in TopIdxChoices(sc, k) :
                         response' =
                            [kind |-> "result",
                             recommendations |-> RecItems(it2, top_idx),
                             has_scores |-> TRUE,
                             scores |-> RecScores(sc, top_idx),
                             optimal_send_time |-> safe_int_hour(uf.avg_purchase_hour),
                             fallback |-> FALSE]
    /\ predict' = "returned"
    /\ pc' = "done"
    /\ UNCHANGED <<genVars, fs_con, ranker, argVars, cand_status, candidates, uf, it,
                   it2, n_predict, mergeVars, auxVars>>

\* recommend, lines 168-170: predict raises.
PredictRaise ==
    /\ pc = "predict" /\ predict = "running"
    /\ response' = fallback(ModelFallbackList(candidates, it2),
                            uf.avg_purchase_hour, top_k)
    /\ predict' = "raised"
    /\ pc' = "done"
    /\ UNCHANGED <<genVars, fs_con, ranker, argVars, cand_status, candidates, uf, it,
                   it2, scores, n_predict, mergeVars, auxVars>>

\* PurchaseRanker.predict is a plain synchronous call: when the model never
\* returns, recommend stays inside it.
PredictHang ==
    /\ pc = "predict" /\ predict = "running"
    /\ predict' = "hung"
    /\ UNCHANGED <<genVars, fs_con, ranker, pc, argVars, cand_status, candidates, uf,
                   it, it2, scores, response, n_predict, mergeVars, auxVars>>

\* RecommendationService.close
Close ==
    /\ pc \in {"idle", "done"}
    /\ con' = FALSE
    /\ cache_ready' = FALSE
    /\ fs_con' = FALSE
    /\ UNCHANGED <<ranker, callVars, mergeVars, auxVars>>

NoMerge ==
    /\ mview = <<>>
    /\ mpool = <<>>
    /\ margs = [total_k |-> 0, pop_top |-> 0, cf_top |-> 0, fallback_pop_expand |-> 0]
    /\ merged = <<>>
    /\ mpc = "off"

NoNorm ==
    /\ nitems = <<>>
    /\ norm = <<>>
    /\ npc = "off"

NoCf ==
    /\ ctx = {}
    /\ cview = <<>>
    /\ cargs = <<>>
    /\ cf_rows = <<>>
    /\ cpc = "off"

NoConc ==
    /\ tpc = <<>>
    /\ cur = NULL
    /\ con_opened = {}
    /\ views = <<>>
    /\ pcon = <<>>
    /\ qcon = <<>>
    /\ tres = <<>>
    /\ fs_opened = {}

\* The values of gen and pop in the specifications that make no direct
\* generator or popularity call.
NoGen == gen = <<>>

NoPop == pop = <<>>

\* item_features.py groups by article_id: one row per article in the file.
NoDup == dup_rows = FALSE

NoMore == NoDup /\ NoGen /\ NoPop

NoAux == NoNorm /\ NoCf /\ NoConc /\ NoMore

NoCall ==
    /\ pc = "idle"
    /\ arg_top_k = TopKDefault
    /\ top_k = TopKDefault
    /\ cand_status = "none"
    /\ candidates = <<>>
    /\ uf = NoUf
    /\ it = NoIt
    /\ it2 = <<>>
    /\ predict = "none"
    /\ scores = <<>>
    /\ response = NoResponse
    /\ n_predict = 0

\* RecommendationService.__init__: no connection is open; the ranker is
\* loaded when the model file exists.
Init ==
    /\ con = FALSE
    /\ cache_ready = FALSE
    /\ fs_con = FALSE
    /\ ranker \in BOOLEAN
    /\ NoCall
    /\ NoMerge
    /\ NoAux

Next ==
    \/ \E k \in TopKArgs : Recommend(k)
    \/ CandidatesRaise
    \/ Candidates
    \/ UserFeaturesRaise
    \/ UserFeatures
    \/ ItemFeaturesRaise
    \/ ItemFeatures
    \/ PredictReturn
    \/ PredictRaise
    \/ PredictHang
    \/ Close

Spec == Init /\ [][Next]_vars

\* The service thread runs whenever it can take a step.
FairSpec == Spec /\ WF_vars(Next)

\* ----------------------- recommend on a file with repeated article rows
\* RecommendationService.__init__ with an item-feature file that may hold
\* two rows for an article_id.
InitDup ==
    /\ con = FALSE
    /\ cache_ready = FALSE
    /\ fs_con = FALSE
    /\ ranker \in BOOLEAN
    /\ NoCall
    /\ NoMerge
    /\ NoNorm
    /\ NoCf
    /\ NoConc
    /\ NoGen
    /\ NoPop
    /\ dup_rows = TRUE

DupSpec == InitDup /\ [][Next]_vars

\* ------------------------------------------------- merge, called directly
MergeArgs ==
    [total_k : 0..MaxK, pop_top : 0..MaxK, cf_top : {MaxK},
     fallback_pop_expand : 0..MaxK]

\* CandidateGenerator.__init__, then a merge_candidates call on the data.
InitMerge ==
    /\ con = FALSE
    /\ cache_ready = FALSE
    /\ fs_con = FALSE
    /\ ranker = FALSE
    /\ NoCall
    /\ mview \in ItemViews
    /\ mpool \in CfPools
    /\ margs \in MergeArgs
    /\ merged = <<>>
    /\ mpc = "ready"
    /\ NoAux

MergeCall ==
    /\ mpc = "ready"
    /\ merged' = merge_candidates(mview, mpool, margs.total_k, margs.pop_top,
                                  margs.cf_top, margs.fallback_pop_expand)
    /\ Connected
    /\ mpc' = "done"
    /\ UNCHANGED <<fs_con, ranker, callVars, mview, mpool, margs, auxVars>>

NextMerge == MergeCall

MergeSpec == InitMerge /\ [][NextMerge]_vars

\* ------------------------------------- merge for a user without CF results
\* A catalogue one article larger than Items, so that the expansion can
\* reach past the popTop pool by two ranks.
RankedItems == 1..(NumItems + 1)

\* Views whose articles carry the distinct ranks 1, 2, 3, ...
\* (item_features.py: ROW_NUMBER() OVER (ORDER BY sales_count DESC)).
RankedViews ==
    UNION {{v \in [S -> 1..Cardinality(S)] : \A a, b \in S : v[a] = v[b] => a = b} :
           S \in SUBSET RankedItems}

PopOnlyArgs ==
    [total_k : 0..(MaxK + 1), pop_top : 0..(MaxK + 1), cf_top : {MaxK},
     fallback_pop_expand : 0..(MaxK + 1)]

\* CandidateGenerator.__init__, then a merge_candidates call for a user
\* whose co-occurrence query returns no row.
InitPopOnly ==
    /\ con = FALSE
    /\ cache_ready = FALSE
    /\ fs_con = FALSE
    /\ ranker = FALSE
    /\ NoCall
    /\ mview \in RankedViews
    /\ mpool = <<>>
    /\ margs \in PopOnlyArgs
    /\ merged = <<>>
    /\ mpc = "ready"
    /\ NoAux

PopOnlySpec == InitPopOnly /\ [][NextMerge]_vars

\* ------------------------------------------ _normalize_scores, called directly
\* Raw scores in 1/ScoreUnit: negative, zero and positive ones.
NormScores == {-50, 0, 50, 100}

\* The lists of distinct article IDs, in any order.
IdLists ==
    UNION {{ids \in [1..n -> Items] : \A i, j \in 1..n : ids[i] = ids[j] => i = j} :
           n \in 0..NumItems}

\* List[ScoredItem]: one row per article ID, as both sources return them.
ScoredLists ==
    UNION {{[i \in 1..Len(ids) |-> [item_id |-> ids[i], score |-> sc[i]]] :
            sc \in [1..Len(ids) -> NormScores]} : ids \in IdLists}

\* CandidateGenerator.__init__, then a _normalize_scores call on a list.
InitNorm ==
    /\ con = FALSE
    /\ cache_ready = FALSE
    /\ fs_con = FALSE
    /\ ranker = FALSE
    /\ NoCall
    /\ NoMerge
    /\ nitems \in ScoredLists
    /\ norm = <<>>
    /\ npc = "ready"
    /\ NoCf
    /\ NoConc
    /\ NoMore

NormalizeCall ==
    /\ npc = "ready"
    /\ norm' = normalize_scores(nitems)
    /\ npc' = "done"
    /\ UNCHANGED <<genVars, fs_con, ranker, callVars, mergeVars, nitems, cfVars,
                   concVars, moreVars>>

NextNorm == NormalizeCall

NormSpec == InitNorm /\ [][NextNorm]_vars

\* ------------------------------------------- CF query, called directly
MaxTx == 4

\* The requesting customer and one other.
Customers == {1, 2}
\* t_dat as a day number: the latest day and one half-life earlier.
Dates == {0, HalfLifeDays}

TxRows == [customer_id : Customers, article_id : Items, t_dat : Dates]

\* v_cf_transactions: the transactions of the window.
TxTables == {T \in SUBSET TxRows : Cardinality(T) <= MaxTx}

\* Views for the query's LEFT JOIN: no row at all, rank = article ID, and
\* rank = article ID reversed.
CfViews ==
    {<<>>, [a \in Items |-> a], [a \in Items |-> NumItems + 1 - a]}

CfArgs ==
    [user_id : {1}, top_k : {1, MaxK}, recent_items : {1, 2},
     cooc_top_per_seed : {1, 2}, half_life : {HalfLifeDays},
     alpha : {0, PenaltyAlpha}, exclude_already_purchased : BOOLEAN]

\* CandidateGenerator.__init__ and connect, then a
\* generate_cf_scored_item2item call on the data.
InitCf ==
    /\ con = FALSE
    /\ cache_ready = FALSE
    /\ fs_con = FALSE
    /\ ranker = FALSE
    /\ NoCall
    /\ NoMerge
    /\ NoNorm
    /\ ctx \in TxTables
    /\ cview \in CfViews
    /\ cargs \in CfArgs
    /\ cf_rows = <<>>
    /\ cpc = "ready"
    /\ NoConc
    /\ NoMore

CfCall ==
    /\ cpc = "ready"
    /\ cf_rows' = cf_query(ctx, cview, cargs.user_id, cargs)
    /\ Connected
    /\ cpc' = "done"
    /\ UNCHANGED <<fs_con, ranker, callVars, mergeVars, normVars, ctx, cview, cargs,
                   concVars, moreVars>>

NextCf == CfCall

CfSpec == InitCf /\ [][NextCf]_vars

\* ------------------------------------ popularity source, called directly
\* Views whose ranks include 0 (score 1.0) and NULL.
PopViews == UNION {[S -> {0} \cup Ranks \cup {NULL}] : S \in SUBSET Items}

\* CandidateGenerator.__init__, then generate_popularity_candidates and
\* generate_popularity_scored called once each with the same top_k.
InitPop ==
    /\ con = FALSE
    /\ cache_ready = FALSE
    /\ fs_con = FALSE
    /\ ranker = FALSE
    /\ NoCall
    /\ NoMerge
    /\ NoNorm
    /\ NoCf
    /\ NoConc
    /\ NoDup
    /\ NoGen
    /\ pop \in [view : PopViews, top_k : 0..MaxK, ids : {<<>>}, rows : {<<>>},
                 ids_done : {FALSE}, rows_done : {FALSE}]

PopRest == <<fs_con, ranker, callVars, mergeVars, normVars, cfVars, concVars, dup_rows,
             gen>>

PopCandidatesCall ==
    /\ ~pop.ids_done
    /\ pop' = [pop EXCEPT !.ids = generate_popularity_candidates(pop.view, pop.top_k),
                          !.ids_done = TRUE]
    /\ Connected
    /\ UNCHANGED PopRest

PopScoredCall ==
    /\ ~pop.rows_done
    /\ pop' = [pop EXCEPT !.rows = generate_popularity_scored(pop.view, pop.top_k),
                          !.rows_done = TRUE]
    /\ Connected
    /\ UNCHANGED PopRest

NextPop == PopCandidatesCall \/ PopScoredCall

PopSpec == InitPop /\ [][NextPop]_vars

\* ------------------------------------------------ the generator's lifecycle
\* The calls and closes made on one CandidateGenerator, at most MaxOps.
MaxOps == 4

\* The generator calls that go through connect().
GenCalls == {"popularity", "cf", "merge"}

\* connect opening a connection on every call.
connect_open_always(g) == [g EXCEPT !.con = TRUE, !.opens = @ + 1]

\* connect, lines 59-70: the connection is opened when self.con is None.
connect_open(g) ==
    IF g.con THEN g ELSE [g EXCEPT !.con = TRUE, !.opens = @ + 1]

\* connect, lines 71-72, and _prepare_cache: the views are derived when
\* _cache_ready is not set.
connect_prepare(g) ==
    IF g.ready THEN g ELSE [g EXCEPT !.ready = TRUE, !.preps = @ + 1]

\* close releasing the connection and leaving _cache_ready set.
close_keeps_ready(g) == [g EXCEPT !.con = FALSE]

\* close, lines 408-412
close(g) == [g EXCEPT !.con = FALSE, !.ready = FALSE]

\* The instance's two fields with the connections opened and the view
\* derivations completed since construction or the last close.
GenState == [con |-> con, ready |-> cache_ready, opens |-> gen.opens, preps |-> gen.preps]

\* CandidateGenerator.__init__
InitGen ==
    /\ con = FALSE
    /\ cache_ready = FALSE
    /\ fs_con = FALSE
    /\ ranker = FALSE
    /\ NoCall
    /\ NoMerge
    /\ NoNorm
    /\ NoCf
    /\ NoConc
    /\ NoDup
    /\ NoPop
    /\ gen = [opens |-> 0, preps |-> 0, ops |-> 0, closes |-> 0, last |-> "none",
              stage |-> "none"]

GenRest == <<fs_con, ranker, callVars, mergeVars, normVars, cfVars, concVars, dup_rows,
             pop>>

\* A popularity, CF or merge call: connect() and then its queries; it
\* returns, or raises in duckdb.connect, in _prepare_cache or in a query.
GenCall(kind) ==
    /\ gen.ops < MaxOps
    /\ \E stage \in {"connect", "prepare", "query", "done"} :
          /\ stage = "connect" => ~con
          /\ stage = "prepare" => ~cache_ready
          /\ LET g == IF stage = "connect" THEN GenState
                      ELSE IF stage = "prepare" THEN connect_open(GenState)
                      ELSE connect_prepare(connect_open(GenState))
             IN  /\ con' = g.con
                 /\ cache_ready' = g.ready
                 /\ gen' = [gen EXCEPT !.opens = g.opens, !.preps = g.preps,
                                       !.ops = @ + 1, !.last = kind, !.stage = stage]
    /\ UNCHANGED GenRest

\* CandidateGenerator.close
GenClose ==
    /\ gen.ops < MaxOps
    /\ LET g == close(GenState)
       IN  /\ con' = g.con
           /\ cache_ready' = g.ready
           /\ gen' = [gen EXCEPT !.opens = 0, !.preps = 0, !.ops = @ + 1,
                                 !.closes = @ + 1, !.last = "close", !.stage = "done"]
    /\ UNCHANGED GenRest

NextGen ==
    \/ \E kind \in GenCalls : GenCall(kind)
    \/ GenClose

GenSpec == InitGen /\ [][NextGen]_vars

\* ------------------------------- two recommend calls on one orchestrator
\* The threads, one recommend call each; connection t is the one thread t's
\* duckdb.connect returns, connection 0 one opened by an earlier call.
Threads == {1, 2}
Conns == {0} \cup Threads

\* RecommendationService.__init__, either unused or after a first call that
\* opened the connections and prepared the views; then two threads enter
\* recommend.
InitConc ==
    /\ ranker = FALSE
    /\ NoCall
    /\ NoMerge
    /\ NoNorm
    /\ NoCf
    /\ NoMore
    /\ \E used \in BOOLEAN :
          /\ con = used
          /\ cache_ready = used
          /\ fs_con = used
          /\ cur = IF used THEN 0 ELSE NULL
          /\ con_opened = IF used THEN {0} ELSE {}
          /\ fs_opened = IF used THEN {0} ELSE {}
          /\ views = [c \in Conns |-> IF used /\ c = 0 THEN "ready" ELSE "absent"]
    /\ tpc = [t \in Threads |-> "connect"]
    /\ pcon = [t \in Threads |-> NULL]
    /\ qcon = [t \in Threads |-> NULL]
    /\ tres = [t \in Threads |-> "none"]

ConcRest == <<ranker, callVars, mergeVars, normVars, cfVars, moreVars>>

\* connect, line 59: if self.con is None
ConnectTest(t) ==
    /\ tpc[t] = "connect"
    /\ tpc' = [tpc EXCEPT ![t] = IF con THEN "ready_test" ELSE "open"]
    /\ UNCHANGED <<genVars, fs_con, cur, con_opened, views, pcon, qcon, tres, fs_opened,
                   ConcRest>>

\* connect, line 61: self.con = duckdb.connect(":memory:"), a database of
\* its own without any view.
ConnectOpen(t) ==
    /\ tpc[t] = "open"
    /\ con_opened' = con_opened \cup {t}
    /\ cur' = t
    /\ con' = TRUE
    /\ tpc' = [tpc EXCEPT ![t] = "ready_test"]
    /\ UNCHANGED <<cache_ready, fs_con, views, pcon, qcon, tres, fs_opened, ConcRest>>

\* connect, line 71: if not self._cache_ready; _prepare_cache, line 76:
\* con = self.con
ReadyTest(t) ==
    /\ tpc[t] = "ready_test"
    /\ IF cache_ready
       THEN /\ tpc' = [tpc EXCEPT ![t] = "return"]
            /\ pcon' = pcon
       ELSE /\ tpc' = [tpc EXCEPT ![t] = "drop"]
            /\ pcon' = [pcon EXCEPT ![t] = cur]
    /\ UNCHANGED <<genVars, fs_con, cur, con_opened, views, qcon, tres, fs_opened,
                   ConcRest>>

\* _prepare_cache, lines 80-105: the DROP ... IF EXISTS statements.
PrepareDrop(t) ==
    /\ tpc[t] = "drop"
    /\ views' = [views EXCEPT ![pcon[t]] = "absent"]
    /\ tpc' = [tpc EXCEPT ![t] = "create"]
    /\ UNCHANGED <<genVars, fs_con, cur, con_opened, pcon, qcon, tres, fs_opened,
                   ConcRest>>

\* _prepare_cache, lines 81-151: the CREATE statements, the last one done.
PrepareCreate(t) ==
    /\ tpc[t] = "create"
    /\ views' = [views EXCEPT ![pcon[t]] = "ready"]
    /\ tpc' = [tpc EXCEPT ![t] = "set_ready"]
    /\ UNCHANGED <<genVars, fs_con, cur, con_opened, pcon, qcon, tres, fs_opened,
                   ConcRest>>

\* _prepare_cache, line 153: self._cache_ready = True
SetReady(t) ==
    /\ tpc[t] = "set_ready"
    /\ cache_ready' = TRUE
    /\ tpc' = [tpc EXCEPT ![t] = "return"]
    /\ UNCHANGED <<con, fs_con, cur, con_opened, views, pcon, qcon, tres, fs_opened,
                   ConcRest>>

\* connect, line 73: return self.con
ConnectReturn(t) ==
    /\ tpc[t] = "return"
    /\ qcon' = [qcon EXCEPT ![t] = cur]
    /\ tpc' = [tpc EXCEPT ![t] = "query"]
    /\ UNCHANGED <<genVars, fs_con, cur, con_opened, views, pcon, tres, fs_opened,
                   ConcRest>>

\* The caller's con.execute(...) on the views: it fails on a connection
\* whose views are dropped or were never created.
Query(t) ==
    /\ tpc[t] = "query"
    /\ tres' = [tres EXCEPT ![t] = IF views[qcon[t]] = "ready" THEN "rows" ELSE "raise"]
    /\ tpc' = [tpc EXCEPT ![t] = IF views[qcon[t]] = "ready" THEN "fs_connect" ELSE "done"]
    /\ UNCHANGED <<genVars, fs_con, cur, con_opened, views, pcon, qcon, fs_opened,
                   ConcRest>>

\* FeatureStore.connect, line 36: if self.con is None
FsConnectTest(t) ==
    /\ tpc[t] = "fs_connect"
    /\ tpc' = [tpc EXCEPT ![t] = IF fs_con THEN "done" ELSE "fs_open"]
    /\ UNCHANGED <<genVars, fs_con, cur, con_opened, views, pcon, qcon, tres, fs_opened,
                   ConcRest>>

\* FeatureStore.connect, line 37: self.con = duckdb.connect(self.db_path)
FsConnectOpen(t) ==
    /\ tpc[t] = "fs_open"
    /\ fs_opened' = fs_opened \cup {t}
    /\ fs_con' = TRUE
    /\ tpc' = [tpc EXCEPT ![t] = "done"]
    /\ UNCHANGED <<genVars, cur, con_opened, views, pcon, qcon, tres, ConcRest>>

NextConc ==
    \E t \in Threads :
        \/ ConnectTest(t)
        \/ ConnectOpen(t)
        \/ ReadyTest(t)
        \/ PrepareDrop(t)
        \/ PrepareCreate(t)
        \/ SetReady(t)
        \/ ConnectReturn(t)
        \/ Query(t)
        \/ FsConnectTest(t)
        \/ FsConnectOpen(t)

ConcSpec == InitConc /\ [][NextConc]_vars

\* ----------------------------------------------------------------- claims
Returned == pc = "done" /\ response.kind = "result"

\* candidates[:top_k] for top_k >= 1
FirstTopK(cands, k) == SubSeq(cands, 1, Min(k, Len(cands)))

\* C1: in every non-fallback response the two lists have equal length and
\* scores[i] is the value predict returned for the feature row of item
\* recommendations[i]: distinct rows idx[i] of the post-filter candidate
\* list hold item recommendations[i] and were given the score scores[i].
C1_ScoresAligned ==
    (Returned /\ ~response.fallback) =>
        /\ Len(response.scores) = Len(response.recommendations)
        /\ \E idx \in [1..Len(response.recommendations) -> 1..Len(it2)] :
              /\ \A i, j \in DOMAIN idx : idx[i] = idx[j] => i = j
              /\ \A i \in DOMAIN idx :
                    /\ response.recommendations[i] = it2[idx[i]]
                    /\ response.scores[i] = scores[idx[i]]

C1_Witness ==
    /\ Returned /\ ~response.fallback
    /\ Len(it2) = 3
    /\ Len(response.recommendations) = 2
    /\ response.recommendations[1] = it2[3]
    /\ response.recommendations[2] = it2[1]
    /\ response.scores[1] > response.scores[2]

\* C2: a recommend call with topK >= 1 never ends in an exception: whichever
\* stage fails, the call returns a response, with fallback == true unless
\* predict returned.
C2_NeverRaises ==
    (pc = "done" /\ arg_top_k >= 1) =>
        /\ response.kind = "result"
        /\ (predict # "returned" => response.fallback)

\* C3: when merge returns the empty list, recommend returns [] with scores
\* and optimalSendTime null and fallback true, and neither feature lookup
\* nor predict has been called.
C3_EmptyCandidates ==
    (pc = "done" /\ cand_status = "returned" /\ Len(candidates) = 0) =>
        /\ response.kind = "result"
        /\ response.recommendations = <<>>
        /\ ~response.has_scores
        /\ response.optimal_send_time = NULL
        /\ response.fallback
        /\ uf.status = "none"
        /\ it.status = "none"
        /\ predict = "none"

C3_Witness ==
    /\ pc = "done" /\ cand_status = "returned" /\ Len(candidates) = 0
    /\ response.kind = "result"
    /\ fs_con

\* C4: with a non-empty candidate list and no feature-store record for the
\* user, recommend (topK >= 1) returns the first topK merged candidates in
\* unchanged order, scores null, fallback true, and the fallback hour.
C4_NoUserRecord ==
    (pc = "done" /\ Len(candidates) > 0 /\ uf.status = "empty" /\ arg_top_k >= 1) =>
        /\ response.kind = "result"
        /\ response.recommendations = FirstTopK(candidates, arg_top_k)
        /\ ~response.has_scores
        /\ response.fallback
        /\ response.optimal_send_time = FallbackHour

C4_Witness ==
    /\ pc = "done" /\ uf.status = "empty"
    /\ arg_top_k >= 1
    /\ Len(candidates) > arg_top_k
    /\ Len(response.recommendations) = arg_top_k

\* The call got past the feature matrix and found no ranker, or predict raised.
ModelFailed ==
    /\ pc = "done"
    /\ uf.status = "found" /\ it.status = "rows" /\ Len(it2) > 0
    /\ response.kind = "result"
    /\ \/ ~ranker
       \/ predict = "raised"

\* C5: when the ranking model is unavailable or predict raises, recommend
\* (topK >= 1) returns fallback true, scores null, and the list merge
\* returned cut to its first topK entries, also when some of those
\* candidates have no complete item-feature row.
C5_ModelFailureKeepsMergedList ==
    (ModelFailed /\ arg_top_k >= 1) =>
        /\ response.fallback
        /\ ~response.has_scores
        /\ response.recommendations = FirstTopK(candidates, arg_top_k)

\* C6: when the user record exists and no candidate has a complete
\* item-feature row (no row at all, or every row has a null feature),
\* recommend (topK >= 1) returns fallback true, scores null, and the first
\* topK merged candidates in candidate order.
C6_NoItemFeatures ==
    (/\ pc = "done" /\ uf.status = "found"
     /\ it.status = "rows" /\ it.missing_cols = {}
     /\ it.complete \cap Range(candidates) = {}
     /\ arg_top_k >= 1) =>
        /\ response.kind = "result"
        /\ response.fallback
        /\ ~response.has_scores
        /\ response.recommendations = FirstTopK(candidates, arg_top_k)

C6_Witness ==
    /\ pc = "done" /\ uf.status = "found"
    /\ it.status = "rows" /\ it.missing_cols = {}
    /\ it.height > 0 /\ it.complete = {}
    /\ arg_top_k >= 1
    /\ Len(candidates) > arg_top_k
    /\ response.fallback

\* C7: a recommend call with topK <= 0 ends in an error raised to the
\* caller, never in a response.
C7_InvalidTopKRaises ==
    (pc = "done" /\ arg_top_k <= 0) => response.kind = "raise"

\* C8: when the item-feature records lack a required column (article_id,
\* popularity_rank, sales_count or peak_hour), recommend raises instead of
\* returning a response.
C8_MissingColumnRaises ==
    (pc = "done" /\ it.missing_cols # {}) => response.kind = "raise"

\* C9: a predict call that does not return is followed, eventually, by
\* recommend returning the fallback response of a prediction error.
C9_PredictTimeoutFallsBack ==
    (predict = "hung") ~>
        (/\ pc = "done" /\ response.kind = "result"
         /\ response.fallback /\ ~response.has_scores)

\* The article IDs the three pools of a direct merge call hold together:
\* the popTop rows, the co-occurrence rows and the fallbackExpand rows.
PoolIds ==
    Range(generate_popularity_candidates(mview, margs.pop_top))
    \cup {r.item_id : r \in Range(generate_cf_scored_item2item(mpool, margs.cf_top))}
    \cup Range(generate_popularity_candidates(mview, margs.fallback_pop_expand))

\* C10: merge returns at most totalK article IDs (none for totalK = 0), and
\* exactly totalK whenever the three pools together hold at least totalK
\* distinct article IDs.
C10_MergeBoundedSize ==
    (mpc = "done") =>
        /\ Len(merged) <= margs.total_k
        /\ (margs.total_k = 0 => merged = <<>>)
        /\ (Cardinality(PoolIds) >= margs.total_k => Len(merged) = margs.total_k)

C10_Witness ==
    /\ mpc = "done"
    /\ margs.total_k >= 2
    /\ Cardinality(Range(generate_popularity_candidates(mview, margs.pop_top))
                   \cup DOMAIN mpool) < margs.total_k
    /\ Cardinality(PoolIds) > margs.total_k
    /\ Len(merged) = margs.total_k

\* The IDs of the popTop pool, of the co-occurrence pool and of the
\* fallbackExpand pool of a direct merge call.
PopTopIds == Range(generate_popularity_candidates(mview, margs.pop_top))

CfIds == {r.item_id : r \in Range(generate_cf_scored_item2item(mpool, margs.cf_top))}

ExpandIds == Range(generate_popularity_candidates(mview, margs.fallback_pop_expand))

\* C11: the list merge returns never holds the same article ID twice,
\* whatever the popularity pool, the co-occurrence pool and the expansion
\* pool are, items that both sources surface and items that are in both
\* the popTop pool and the expansion pool included.
C11_MergeNoDuplicates ==
    (mpc = "done") =>
        \A i, j \in 1..Len(merged) : merged[i] = merged[j] => i = j

\* An item of both sources, and one of the popTop and the expansion pool,
\* in the result of a merge that had to expand.
C11_Witness ==
    /\ mpc = "done"
    /\ Cardinality(PopTopIds \cup CfIds) < margs.total_k
    /\ \E x \in PopTopIds \cap CfIds : x \in Range(merged)
    /\ \E y \in PopTopIds \cap ExpandIds : y \in Range(merged)
    /\ Len(merged) >= 2

\* The normalized scores a direct merge call ranks by.
MergedPs(a) ==
    GetOr0(merge_pop_norm(mview, mpool, margs.total_k, margs.pop_top, margs.cf_top,
                          margs.fallback_pop_expand), a)

MergedCs(a) == GetOr0(merge_cf_norm(mpool, margs.cf_top), a)

MergedFinal(a) == WPop * MergedPs(a) + WCf * MergedCs(a)

SameKey(a, b) ==
    /\ MergedFinal(a) = MergedFinal(b)
    /\ MergedCs(a) = MergedCs(b)
    /\ MergedPs(a) = MergedPs(b)

\* C12: merge orders its result by final = wPop * popScore + wCf * cfScore
\* descending (a missing source counts 0), then cfScore descending, then
\* popScore descending, then article ID ascending: of two items equal in
\* all three scores the one with the smaller ID comes first.
C12_MergeOrderIdAscending ==
    (mpc = "done") =>
        \A i, j \in 1..Len(merged) :
            i < j =>
                LET a == merged[i]
                    b == merged[j]
                IN  \/ MergedFinal(a) > MergedFinal(b)
                    \/ /\ MergedFinal(a) = MergedFinal(b)
                       /\ MergedCs(a) > MergedCs(b)
                    \/ /\ MergedFinal(a) = MergedFinal(b)
                       /\ MergedCs(a) = MergedCs(b)
                       /\ MergedPs(a) > MergedPs(b)
                    \/ /\ SameKey(a, b)
                       /\ a < b

\* The rows of a direct _normalize_scores call.
NRows == {nitems[i] : i \in 1..Len(nitems)}

NMaxScore == CHOOSE v \in {r.score : r \in NRows} : \A r \in NRows : r.score <= v

NMinScore == CHOOSE v \in {r.score : r \in NRows} : \A r \in NRows : r.score >= v

\* The normalizer's contract for a non-empty list, given which lists count
\* as degenerate: every value in [0, 1]; all 1.0 in the degenerate case;
\* otherwise 1.0 for the maximum and 0.0 for the minimum; monotone.
NormalizerContract(degenerate) ==
    /\ DOMAIN norm = {r.item_id : r \in NRows}
    /\ \A r \in NRows : norm[r.item_id] >= 0 /\ norm[r.item_id] <= NormUnit
    /\ degenerate => \A r \in NRows : norm[r.item_id] = NormUnit
    /\ ~degenerate =>
          \A r \in NRows :
              /\ r.score = NMaxScore => norm[r.item_id] = NormUnit
              /\ r.score = NMinScore => norm[r.item_id] = 0
    /\ \A r, q \in NRows : r.score <= q.score => norm[r.item_id] <= norm[q.item_id]

\* C14 as stated: for every non-empty list of raw scores the normalized
\* values lie in [0, 1]; when all input scores are equal every item gets
\* 1.0; otherwise the maximum-score item gets 1.0 and the minimum-score item
\* 0.0, and the mapping is monotone in the raw score.
C14_NormalizerAsStated ==
    (npc = "done" /\ Len(nitems) > 0) =>
        NormalizerContract(\A r, q \in NRows : r.score = q.score)

\* C14, amended: the same, with the degenerate case being that max(score, 0)
\* is the same for all items, which covers lists whose scores differ but are
\* all zero or negative.
C14_NormalizerClamped ==
    (npc = "done" /\ Len(nitems) > 0) =>
        NormalizerContract(\A r, q \in NRows : Max(r.score, 0) = Max(q.score, 0))

\* Three items with three different positive-or-zero scores, normalized.
C14_Witness ==
    /\ npc = "done"
    /\ Len(nitems) = 3
    /\ \A i, j \in 1..3 : nitems[i].score = nitems[j].score => i = j
    /\ NMinScore >= 0
    /\ \E r \in NRows : norm[r.item_id] > 0 /\ norm[r.item_id] < NormUnit

\* C15: when the co-occurrence source returns nothing and the items have the
\* distinct popularity ranks 1, 2, 3, ..., merge (wPop = 0.3, wCf = 0.7)
\* returns its items in popularity order, ascending rank, for every totalK,
\* popTop and fallbackExpand, totalK > popTop included, where the fallback
\* expansion supplies the remaining items.
C15_ColdUserPopularityOrder ==
    (mpc = "done" /\ mpool = <<>>) =>
        \A i, j \in 1..Len(merged) : i < j => mview[merged[i]] < mview[merged[j]]

\* cand_agg of a direct call of the CF query.
CfAgg ==
    cand_agg(ctx, cargs.user_id, cargs.recent_items, cargs.cooc_top_per_seed,
             cargs.half_life)

\* C16: in the co-occurrence pool with popPenaltyAlpha > 0, of two
\* candidates with the same summed raw co-purchase score and different known
\* popularity ranks, the one with the worse (larger) rank gets the higher
\* score_cf after the penalty division.
C16_WorseRankScoresHigher ==
    (cpc = "done" /\ cargs.alpha > 0) =>
        \A i, j \in 1..Len(cf_rows) :
            LET a == cf_rows[i].item_id
                b == cf_rows[j].item_id
            IN  (/\ CfAgg[a] = CfAgg[b]
                 /\ JoinedRank(cview, a) # NULL
                 /\ JoinedRank(cview, b) # NULL
                 /\ JoinedRank(cview, a) > JoinedRank(cview, b))
                => cf_rows[i].score > cf_rows[j].score

\* Scoring was handed a candidate sequence: predict was called on the
\* feature matrix built from it2.
Scored == predict # "none"

C18_TopKByScore ==
    (Returned /\ ~response.fallback /\ arg_top_k >= 1) =>
        LET recs == response.recommendations
            rsc  == response.scores
        IN  /\ Len(recs) = Min(arg_top_k, Len(it2))
            /\ Len(rsc) = Len(recs)
            /\ \A i, j \in 1..Len(rsc) : i < j => rsc[i] >= rsc[j]
            /\ \E idx \in [1..Len(recs) -> 1..Len(it2)] :
                  /\ \A i, j \in 1..Len(recs) : idx[i] = idx[j] => i = j
                  /\ \A i \in 1..Len(recs) :
                        it2[idx[i]] = recs[i] /\ scores[idx[i]] = rsc[i]
                  /\ \A x \in 1..Len(it2) :
                        (\A i \in 1..Len(recs) : idx[i] # x) =>
                            \A i \in 1..Len(rsc) : scores[x] <= rsc[i]

\* topK = 2 of three scored candidates, the lowest score in the middle:
\* the first and the third candidate are returned.
C18_Witness ==
    /\ Returned /\ ~response.fallback
    /\ arg_top_k = 2
    /\ Len(it2) = 3
    /\ scores[2] < scores[1] /\ scores[2] < scores[3]
    /\ Range(response.recommendations) = {it2[1], it2[3]}

\* C19: every response for a non-empty candidate list carries
\* avg_purchase_hour rounded and clamped to [0, 23] when it is a number and
\* the fallback hour when it is missing; in particular a user record whose
\* avg_purchase_hour is null, the lookups succeeding, still yields a
\* response, with the fallback hour.
C19_SendTimeFromAvgHour ==
    /\ (Returned /\ Len(candidates) > 0) =>
          response.optimal_send_time =
              IF uf.status = "found" /\ uf.avg_purchase_hour # NULL
              THEN Max(0, Min(23, RoundHalfEven(uf.avg_purchase_hour)))
              ELSE FallbackHour
    /\ (/\ pc = "done"
        /\ uf.status = "found" /\ uf.avg_purchase_hour = NULL /\ ~uf.has_null
        /\ it.status = "rows")
       => (response.kind = "result" /\ response.optimal_send_time = FallbackHour)

\* C20: two recommend calls running concurrently on one orchestrator
\* share one connection and one prepared set of views under every
\* interleaving, first use by both included: no second connection is
\* opened, no call queries views that another call has dropped or that are
\* not built, and each call gets the rows it would get alone.
C20_ConcurrentCallsShare ==
    /\ Cardinality(con_opened) <= 1
    /\ Cardinality(fs_opened) <= 1
    /\ \A t \in DOMAIN tres : tres[t] # "raise"

\* The last generator operation was a call that returned.
GenCallReturned == gen.last \in GenCalls /\ gen.stage = "done"

\* C21: no connection is open after construction; over a series of
\* popularity, CF and merge calls without a close in between, the connection
\* is opened once, by the first call, and the views are derived once, every
\* later call reusing both.
C21_OpenedAndDerivedOnce ==
    /\ gen.ops = 0 => (~con /\ gen.opens = 0 /\ gen.preps = 0)
    /\ gen.opens <= 1 /\ gen.preps <= 1
    /\ GenCallReturned =>
          (con /\ cache_ready /\ gen.opens = 1 /\ gen.preps = 1)

\* Three calls in a row without a close, the last one returned.
C21_Witness ==
    /\ GenCallReturned
    /\ gen.ops = 3 /\ gen.closes = 0
    /\ gen.opens = 1 /\ gen.preps = 1

\* a stands before b in the order of topPopular: by rank ascending, an
\* article without a rank after every ranked one, equal ranks by article ID.
RankOrdered(view, a, b) ==
    \/ view[a] # NULL /\ view[b] = NULL
    \/ view[a] # NULL /\ view[b] # NULL /\ view[a] < view[b]
    \/ view[a] = view[b] /\ a < b

\* C22: topPopular(k) returns at most k article IDs ordered by popularity
\* rank ascending, NULL ranks last, equal ranks by article ID ascending;
\* scored(k) returns the same articles in the same order, with the raw score
\* 1 / (1 + max(rank, 0)), non-increasing along the list, the articles
\* without a rank scoring lowest.
C22_PopularityOrderAndScores ==
    /\ pop.ids_done =>
          /\ Len(pop.ids) <= pop.top_k
          /\ Range(pop.ids) \subseteq DOMAIN pop.view
          /\ \A i, j \in 1..Len(pop.ids) :
                i < j => RankOrdered(pop.view, pop.ids[i], pop.ids[j])
    /\ (pop.ids_done /\ pop.rows_done) =>
          pop.ids = [i \in 1..Len(pop.rows) |-> pop.rows[i].item_id]
    /\ pop.rows_done =>
          /\ Len(pop.rows) <= pop.top_k
          /\ \A i \in 1..Len(pop.rows) :
                LET rank == pop.view[pop.rows[i].item_id]
                IN  /\ rank # NULL =>
                          pop.rows[i].score = ScoreUnit \div (1 + Max(rank, 0))
                    /\ rank = NULL =>
                          \A j \in 1..Len(pop.rows) : pop.rows[i].score <= pop.rows[j].score
          /\ \A i, j \in 1..Len(pop.rows) :
                i < j => pop.rows[i].score >= pop.rows[j].score

\* Both calls made on a view with an unranked article of a smaller ID than
\* a ranked one, and two articles of equal rank, all three returned.
C22_Witness ==
    /\ pop.ids_done /\ pop.rows_done
    /\ Len(pop.ids) = 3
    /\ \E a, b \in DOMAIN pop.view :
          a < b /\ pop.view[a] = NULL /\ pop.view[b] # NULL
    /\ \E a, b \in DOMAIN pop.view :
          a # b /\ pop.view[a] = pop.view[b] /\ pop.view[a] # NULL

\* C23: with exclude_already_purchased set, no article the co-occurrence
\* query returns is one the user bought within the window; the result holds
\* at most top_k rows, by score_cf descending, equal scores by article ID
\* ascending.
C23_ExcludesPurchasedOrdered ==
    (cpc = "done") =>
        /\ cargs.exclude_already_purchased =>
              \A i \in 1..Len(cf_rows) :
                  \A r \in ctx :
                      r.customer_id = cargs.user_id => r.article_id # cf_rows[i].item_id
        /\ Len(cf_rows) <= cargs.top_k
        /\ \A i, j \in 1..Len(cf_rows) :
              i < j =>
                  \/ cf_rows[i].score > cf_rows[j].score
                  \/ /\ cf_rows[i].score = cf_rows[j].score
                     /\ cf_rows[i].item_id < cf_rows[j].item_id

\* A purchase of the user that co-occurs with a seed is held back, and
\* another article is returned.
C23_Witness ==
    /\ cpc = "done"
    /\ cargs.exclude_already_purchased
    /\ \E c \in DOMAIN CfAgg : c \in user_purchased(ctx, cargs.user_id)
    /\ Len(cf_rows) = 1

\* The seed rows of a direct call of the CF query, and their articles.
CfSeedRows == user_recent(ctx, cargs.user_id, cargs.recent_items)

CfSeedItems == {r.article_id : r \in CfSeedRows}

\* C24: a candidate's raw score accumulates only the co-purchase events of
\* customers other than the requesting user: every returned candidate was
\* bought by another customer who also bought a seed item, and a user who
\* is the only buyer of every seed item gets an empty result, also with
\* exclude_already_purchased off.
C24_OnlyOtherCustomersCount ==
    (cpc = "done") =>
        /\ \A i \in 1..Len(cf_rows) :
              \E t1, t2 \in ctx :
                  /\ t1.customer_id # cargs.user_id
                  /\ t1.article_id \in CfSeedItems
                  /\ t2.customer_id = t1.customer_id
                  /\ t2.article_id = cf_rows[i].item_id
        /\ (\A r \in ctx : r.article_id \in CfSeedItems => r.customer_id = cargs.user_id)
              => cf_rows = <<>>

\* The articles the user bought, by the day of their latest purchase,
\* latest first, equal days by article ID: the first n of them.
DistinctRecentItems(tx, user_id, n) ==
    LET mine == {r \in tx : r.customer_id = user_id}
        bought == {r.article_id : r \in mine}
        last(a) == CHOOSE d \in {r.t_dat : r \in {q \in mine : q.article_id = a}} :
                       \A q \in mine : q.article_id = a => q.t_dat <= d
        rnk(a) == 1 + Cardinality({b \in bought :
                                     \/ last(b) > last(a)
                                     \/ last(b) = last(a) /\ b < a})
    IN  {a \in bought : rnk(a) <= n}

\* C25: the seed set is the user's recent_items most recently bought
\* distinct articles of the window (all of them when there are fewer), each
\* seed entering once with one recency weight: repeated purchases of an
\* article neither take seed slots nor add a second weight.
C25_SeedsAreDistinctItems ==
    (cpc = "done") =>
        /\ CfSeedItems = DistinctRecentItems(ctx, cargs.user_id, cargs.recent_items)
        /\ Cardinality(CfSeedRows) = Cardinality(CfSeedItems)

\* C26: within one recommend call the stages run in the order candidates,
\* user features, item features, scoring; predict is invoked at most once,
\* and only when the candidate list is non-empty, the user's row was found
\* and at least one candidate has a complete item-feature row; a call that
\* took a fallback branch ran no later stage and answers fallback = true.
C26_StagesInOrder ==
    /\ n_predict <= 1
    /\ Scored <=> n_predict = 1
    /\ uf.status # "none" => (cand_status = "returned" /\ Len(candidates) > 0)
    /\ it.status # "none" => uf.status = "found"
    /\ Scored =>
          /\ it.status = "rows"
          /\ Len(it2) >= 1
          /\ Range(it2) \subseteq it.complete
    /\ Returned =>
          /\ (cand_status = "returned" /\ Len(candidates) = 0) =>
                (uf.status = "none" /\ response.fallback)
          /\ uf.status = "empty" => (it.status = "none" /\ response.fallback)
          /\ (it.status = "rows" /\ it2 = <<>>) => (~Scored /\ response.fallback)
          /\ predict = "raised" => response.fallback
          /\ ~response.fallback => predict = "returned"

\* A call that scored fewer candidates than merge returned, and answered.
C26_Witness ==
    /\ Returned /\ ~response.fallback
    /\ predict = "returned" /\ n_predict = 1
    /\ Len(it2) >= 1 /\ Len(it2) < Len(candidates)

\* C27: every response holds recommendations, scores, optimal_send_time
\* and fallback, and fallback is true exactly when scores is None; when
\* fallback is false, scores is a list as long as recommendations, with at
\* least one entry.
C27_FallbackIffNoScores ==
    Returned =>
        /\ {"recommendations", "scores", "optimal_send_time", "fallback"}
               \subseteq DOMAIN response
        /\ response.fallback <=> ~response.has_scores
        /\ ~response.fallback =>
              /\ Len(response.scores) = Len(response.recommendations)
              /\ Len(response.scores) >= 1

\* A scored response for a negative top_k, and so not of min(top_k, n) items.
C27_Witness ==
    /\ Returned /\ ~response.fallback
    /\ arg_top_k < 0
    /\ Len(response.scores) >= 1

\* C28: in every response for top_k >= 1, fallback or not, recommendations
\* has at most top_k entries, each an article ID of the list
\* merge_candidates returned for this call.
C28_RecsFromCandidates ==
    (Returned /\ arg_top_k >= 1) =>
        /\ Len(response.recommendations) <= arg_top_k
        /\ Range(response.recommendations) \subseteq Range(candidates)

\* Two of three candidates returned by a scored call with top_k = 2.
C28_Witness ==
    /\ Returned /\ ~response.fallback
    /\ arg_top_k = 2
    /\ Len(candidates) = 3
    /\ Len(response.recommendations) = 2

\* C29: no response lists the same article ID twice in recommendations,
\* whatever the feature store holds, a file with more than one row for an
\* article ID included.
C29_NoRepeatedRecommendation ==
    Returned =>
        \A i, j \in 1..Len(response.recommendations) :
            response.recommendations[i] = response.recommendations[j] => i = j

\* C30: in every state a generator reaches by calls and closes, the views
\* are marked ready only while the connection is open; a close, a repeated
\* one included, leaves the connection released and the mark cleared; and a
\* call that got to its queries after a close has opened the connection
\* and derived the views once since that close.
C30_ReadyOnlyWhileOpen ==
    /\ cache_ready => con
    /\ gen.last = "close" => (~con /\ ~cache_ready)
    /\ (gen.last \in GenCalls /\ gen.stage \in {"query", "done"}) =>
          (con /\ cache_ready /\ gen.opens = 1 /\ gen.preps = 1)

\* Two closes and two calls, the last a call that returned on a connection
\* opened after the closes.
C30_Witness ==
    /\ gen.ops = 4 /\ gen.closes = 2
    /\ gen.last \in GenCalls /\ gen.stage = "done"
    /\ con /\ cache_ready /\ gen.opens = 1 /\ gen.preps = 1

====
